---- MODULE Spec2Model ----
(***************************************************************************)
(* The gradient image emitter of src/main.cpp: main() writes a P3 header   *)
(* and image_width * image_height pixel lines to std::cout, and progress   *)
(* text to std::clog.                                                      *)
(*                                                                         *)
(* The colour arithmetic of the program is done in IEEE-754 binary64       *)
(* (`double`).  It is modelled here bit for bit on non-negative finite     *)
(* values: a double is a 53-bit significand held in five limbs of 13 bits  *)
(* and a binary exponent, and division and multiplication round to         *)
(* nearest, ties to even, as the hardware does.                            *)
(***************************************************************************)
EXTENDS Integers, Sequences, TLC

(***************************************************************************)
(* Program constants.                                                      *)
(***************************************************************************)
image_width == 256
image_height == 256

(***************************************************************************)
(* Bound of the model: how many leading lines of an output stream a state  *)
(* retains (the rest of a stream is observed through its length and its    *)
(* last write).                                                            *)
(***************************************************************************)
HeadKeep == 3

(***************************************************************************)
(* binary64.  A positive double is [m |-> <<m4, m3, m2, m1, m0>>, e |-> e] *)
(* and stands for (m4*2^52 + m3*2^39 + m2*2^26 + m1*2^13 + m0) * 2^(e-52)  *)
(* with m4 = 1 (the leading bit) and 0 <= m3..m0 < 2^13.  Zero has all     *)
(* limbs 0.                                                                *)
(***************************************************************************)
Limb == 2^13

DZero == [m |-> <<0, 0, 0, 0, 0>>, e |-> 0]

IsZero(x) == x.m[1] = 0

\* The significand plus one unit in the last place; a carry out of the
\* leading limb renormalises to 1.0 * 2^(e+1).
DSucc(x) ==
    LET m  == x.m
        s0 == m[5] + 1
        s1 == m[4] + s0 \div Limb
        s2 == m[3] + s1 \div Limb
        s3 == m[2] + s2 \div Limb
        s4 == m[1] + s3 \div Limb
    IN  IF s4 = 2
        THEN [m |-> <<1, 0, 0, 0, 0>>, e |-> x.e + 1]
        ELSE [m |-> <<s4, s3 % Limb, s2 % Limb, s1 % Limb, s0 % Limb>>, e |-> x.e]

\* Round to nearest, ties to even: x is the truncated result, `above` says
\* the discarded part exceeds half a unit in the last place, `tie` that it
\* is exactly half.
DRound(x, above, tie) ==
    IF above \/ (tie /\ x.m[5] % 2 = 1) THEN DSucc(x) ELSE x

\* floor(log2(n / d)) for n, d > 0.
RECURSIVE Log2Quot(_, _)
Log2Quot(n, d) ==
    IF n >= 2 * d THEN 1 + Log2Quot(n, 2 * d)
    ELSE IF n < d THEN Log2Quot(2 * n, d) - 1
    ELSE 0

\* The double nearest to the rational n / d (n >= 0, d > 0, both small
\* enough that the scaled divisor stays below 2^17).  This is the value of
\* double(n) / d, since int -> double is exact for these operands and IEEE
\* division is correctly rounded, and it is the value of a decimal literal
\* n/d such as 255.999 = 255999/1000.
DQuot(n, d) ==
    IF n = 0 THEN DZero
    ELSE
    LET e   == Log2Quot(n, d)
        num == IF e < 0 THEN n * 2^(0 - e) ELSE n
        den == IF e > 0 THEN d * 2^e ELSE d
        r4  == num - den
        q3  == (r4 * Limb) \div den
        r3  == (r4 * Limb) % den
        q2  == (r3 * Limb) \div den
        r2  == (r3 * Limb) % den
        q1  == (r2 * Limb) \div den
        r1  == (r2 * Limb) % den
        q0  == (r1 * Limb) \div den
        r0  == (r1 * Limb) % den
    IN  DRound([m |-> <<1, q3, q2, q1, q0>>, e |-> e], 2 * r0 > den, 2 * r0 = den)

\* The product of two doubles, correctly rounded.
DMul(x, y) ==
    IF IsZero(x) \/ IsZero(y) THEN DZero
    ELSE
    LET a == x.m
        b == y.m
        \* column sums, least significant first (limb k of a is a[5 - k])
        c0 == a[5]*b[5]
        c1 == a[5]*b[4] + a[4]*b[5]
        c2 == a[5]*b[3] + a[4]*b[4] + a[3]*b[5]
        c3 == a[5]*b[2] + a[4]*b[3] + a[3]*b[4] + a[2]*b[5]
        c4 == a[5]*b[1] + a[4]*b[2] + a[3]*b[3] + a[2]*b[4] + a[1]*b[5]
        c5 == a[4]*b[1] + a[3]*b[2] + a[2]*b[3] + a[1]*b[4]
        c6 == a[3]*b[1] + a[2]*b[2] + a[1]*b[3]
        c7 == a[2]*b[1] + a[1]*b[2]
        c8 == a[1]*b[1]
        \* carry propagation
        t1 == c1 + c0 \div Limb
        t2 == c2 + t1 \div Limb
        t3 == c3 + t2 \div Limb
        t4 == c4 + t3 \div Limb
        t5 == c5 + t4 \div Limb
        t6 == c6 + t5 \div Limb
        t7 == c7 + t6 \div Limb
        p8 == c8 + t7 \div Limb
        p0 == c0 % Limb
        p1 == t1 % Limb
        p2 == t2 % Limb
        p3 == t3 % Limb
        p4 == t4 % Limb
        p5 == t5 % Limb
        p6 == t6 % Limb
        p7 == t7 % Limb
        half   == Limb \div 2
        low    == p0 + p1 + p2
    IN  IF p8 = 1
        THEN \* product in [2^104, 2^105): drop the low 52 bits
             DRound([m |-> <<1, p7, p6, p5, p4>>, e |-> x.e + y.e],
                    p3 > half \/ (p3 = half /\ low > 0),
                    p3 = half /\ low = 0)
        ELSE \* product in [2^105, 2^106): drop the low 53 bits
             DRound([m |-> << p8 \div 2,
                              (p8 % 2) * half + p7 \div 2,
                              (p7 % 2) * half + p6 \div 2,
                              (p6 % 2) * half + p5 \div 2,
                              (p5 % 2) * half + p4 \div 2 >>,
                     e |-> x.e + y.e + 1],
                    p4 % 2 = 1 /\ (low + p3) > 0,
                    p4 % 2 = 1 /\ (low + p3) = 0)

\* Mutant of DToInt: the conversion rounds to nearest instead of truncating.
DToInt_nearest(x) ==
    IF IsZero(x) \/ x.e < -1 THEN 0
    ELSE IF x.e = -1 THEN 1
    ELSE ((x.m[1] * Limb * Limb + x.m[2] * Limb + x.m[3]) \div 2^(25 - x.e) + 1) \div 2

\* static_cast<int>(x): truncation toward zero, for 0 <= x < 2^27.
DToInt(x) ==
    IF IsZero(x) \/ x.e < 0 THEN 0
    ELSE (x.m[1] * Limb * Limb + x.m[2] * Limb + x.m[3]) \div 2^(26 - x.e)

(***************************************************************************)
(* Output streams.  A stream is observed through the number of pieces      *)
(* written to it so far, the first HeadKeep of them, and the piece written *)
(* last.  A piece of std::cout is one line (without its '\n'); a piece of  *)
(* std::clog is the text of one statement.                                 *)
(***************************************************************************)
EmptyStream == [n |-> 0, head |-> <<>>, last |-> ""]

Min(a, b) == IF a < b THEN a ELSE b

\* operator<< : append the pieces to the stream, in order.
Put(s, pieces) ==
    [n    |-> s.n + Len(pieces),
     head |-> SubSeq(s.head \o pieces, 1, Min(HeadKeep, s.n + Len(pieces))),
     last |-> pieces[Len(pieces)]]

\* Mutant of HeaderLines: width and height on separate lines.
HeaderLines_split ==
    << "P3", ToString(image_width), ToString(image_height), "255" >>

\* "P3\n" << image_width << ' ' << image_height << "\n255\n"
HeaderLines ==
    << "P3", ToString(image_width) \o " " \o ToString(image_height), "255" >>

\* "\rScanlines remaining: " << (image_height - 1) << ' '
ProgressText == "\rScanlines remaining: " \o ToString(image_height - 1) \o " "

DoneText == "\rDone.                 \n"

\* Mutant of Scale: the multiplier is 256.
Scale_256 == DQuot(256, 1)

\* The literal 255.999 as the compiler reads it: the nearest double.
Scale == DQuot(255999, 1000)

\* static_cast<int>(255.999 * c)
Intensity(c) == DToInt(DMul(Scale, c))

\* 255.999 * (double(n) / d), truncated: the intensity of the normalized
\* coordinate n / d.
Channel(n, d) == Intensity(DQuot(n, d))

\* The intensities of the columns and of the rows of the image, computed
\* once (the program recomputes the same values for every pixel).
RedRamp == [col \in 0..(image_width - 1) |-> Channel(col, image_width - 1)]

GreenRamp == [row \in 0..(image_height - 1) |-> Channel(row, image_height - 1)]

\* int b = 0 is promoted to double in 255.999 * b.
BlueValue == Channel(0, 1)

\* Mutant of PixelColor: the red gradient runs from right to left.
PixelColor_flipped(row, col) ==
    << Channel(image_width - 1 - col, image_width - 1),
       Channel(row, image_height - 1),
       BlueValue >>

\* The body of the inner loop up to the three ints ir, ig, ib.
PixelColor(row, col) ==
    << IF col \in DOMAIN RedRamp THEN RedRamp[col] ELSE Channel(col, image_width - 1),
       IF row \in DOMAIN GreenRamp THEN GreenRamp[row] ELSE Channel(row, image_height - 1),
       BlueValue >>

\* ir << ' ' << ig << ' ' << ib << '\n'
PixelLine(p) == ToString(p[1]) \o " " \o ToString(p[2]) \o " " \o ToString(p[3])

(***************************************************************************)
(* The state of main(): the control point, the loop counters, the last     *)
(* computed <<ir, ig, ib>>, the two streams and the exit status (-1 while  *)
(* the program runs).                                                      *)
(***************************************************************************)
VARIABLES pc, i, j, px, cout, clog, exit_code

vars == <<pc, i, j, px, cout, clog, exit_code>>

Init ==
    /\ pc = "header"
    /\ i = 0
    /\ j = 0
    /\ px = <<0, 0, 0>>
    /\ cout = EmptyStream
    /\ clog = EmptyStream
    /\ exit_code = -1

\* line 7, and the initialisation of the outer loop
Header ==
    /\ pc = "header"
    /\ cout' = Put(cout, HeaderLines)
    /\ i' = 0
    /\ pc' = "outer"
    /\ UNCHANGED <<j, px, clog, exit_code>>

\* Mutant of RowProgress: the outer loop runs while i <= image_height.
RowProgress_offbyone ==
    /\ pc = "outer"
    /\ i <= image_height
    /\ clog' = Put(clog, <<ProgressText>>)
    /\ j' = 0
    /\ pc' = "inner"
    /\ UNCHANGED <<i, px, cout, exit_code>>

\* outer loop test true; line 10; initialisation of the inner loop
RowProgress ==
    /\ pc = "outer"
    /\ i < image_height
    /\ clog' = Put(clog, <<ProgressText>>)
    /\ j' = 0
    /\ pc' = "inner"
    /\ UNCHANGED <<i, px, cout, exit_code>>

\* Mutant of Pixel: the loop counters are used the wrong way round, so the
\* image is written column by column.
Pixel_transposed ==
    /\ pc = "inner"
    /\ j < image_width
    /\ px' = PixelColor(j, i)
    /\ cout' = Put(cout, <<PixelLine(px')>>)
    /\ j' = j + 1
    /\ UNCHANGED <<pc, i, clog, exit_code>>

\* Mutant of Pixel: the progress text is written inside the inner loop.
Pixel_progress ==
    /\ pc = "inner"
    /\ j < image_width
    /\ clog' = Put(clog, <<ProgressText>>)
    /\ px' = PixelColor(i, j)
    /\ cout' = Put(cout, <<PixelLine(px')>>)
    /\ j' = j + 1
    /\ UNCHANGED <<pc, i, exit_code>>

\* inner loop test true; lines 12-20; ++j
Pixel ==
    /\ pc = "inner"
    /\ j < image_width
    /\ px' = PixelColor(i, j)
    /\ cout' = Put(cout, <<PixelLine(px')>>)
    /\ j' = j + 1
    /\ UNCHANGED <<pc, i, clog, exit_code>>

\* inner loop test false; ++i
RowEnd ==
    /\ pc = "inner"
    /\ j >= image_width
    /\ i' = i + 1
    /\ pc' = "outer"
    /\ UNCHANGED <<j, px, cout, clog, exit_code>>

\* Mutant of Done: the outer loop stops one row early.
Done_early ==
    /\ pc = "outer"
    /\ i >= image_height - 1
    /\ clog' = Put(clog, <<DoneText>>)
    /\ pc' = "return"
    /\ UNCHANGED <<i, j, px, cout, exit_code>>

\* outer loop test false; line 24
Done ==
    /\ pc = "outer"
    /\ i >= image_height
    /\ clog' = Put(clog, <<DoneText>>)
    /\ pc' = "return"
    /\ UNCHANGED <<i, j, px, cout, exit_code>>

\* main() falls off its end: the exit status is 0
Return ==
    /\ pc = "return"
    /\ exit_code' = 0
    /\ pc' = "exited"
    /\ UNCHANGED <<i, j, px, cout, clog>>

Next == Header \/ RowProgress \/ Pixel \/ RowEnd \/ Done \/ Return

Spec == Init /\ [][Next]_vars

\* main() is a single thread that is never suspended: every step that is
\* enabled is eventually taken.
FairSpec == Spec /\ WF_vars(Next)

(***************************************************************************)
(* Properties.                                                             *)
(***************************************************************************)

\* The lines of std::cout before the first pixel line.
NHeader == Len(<<"P3", "256 256", "255">>)

\* The pixel lines written so far.
PixelCount == IF cout.n = 0 THEN 0 ELSE cout.n - NHeader

\* A pixel line has just been written: it is the pixel of row i, column j - 1.
PixelWritten == pc = "inner" /\ j > 0

\* C1: std::cout begins with exactly the three lines "P3", "256 256", "255",
\* in this order; they are written by the first write to std::cout, before
\* any pixel line, and no later write to std::cout is a header line.
C1_HeaderFirstOnce ==
    /\ [](cout.n > 0 =>
            /\ cout.n >= 3
            /\ SubSeq(cout.head, 1, 3) = <<"P3", "256 256", "255">>)
    /\ [][cout' # cout =>
            IF cout.n = 0
            THEN /\ cout'.n = 3
                 /\ cout'.head = <<"P3", "256 256", "255">>
                 /\ cout'.last = "255"
                 /\ px = <<0, 0, 0>> /\ j = 0
            ELSE /\ cout'.n = cout.n + 1
                 /\ cout'.last \notin {"P3", "256 256", "255"}]_vars

\* C1 witness: the whole image has been written after the header.
C1_Witness ==
    /\ pc = "exited"
    /\ cout.n = 3 + 65536
    /\ cout.head[1] = "P3" /\ cout.head[2] = "256 256" /\ cout.head[3] = "255"

\* C2: at every point of the run the number of pixel lines written is
\* i*W + j (i complete rows, j pixels of the current row) and at most W*H;
\* when the program has terminated it is exactly W*H = 65536.
C2_PixelCount ==
    /\ PixelCount = i * image_width + (IF pc = "inner" THEN j ELSE 0)
    /\ PixelCount <= image_width * image_height
    /\ cout.n <= 3 + 65536
    /\ pc \in {"return", "exited"} =>
          /\ PixelCount = image_width * image_height
          /\ cout.n = 3 + 65536

\* C2 witness: the program has terminated with 65536 pixel lines written.
C2_Witness == pc = "exited" /\ PixelCount = 65536 /\ i = 256

\* C3: the k-th pixel line written (k from 0) is the pixel of row k div W and
\* column k mod W, and each write after the header adds exactly one line, so
\* no pixel is skipped, repeated or written out of order.
C3_RowMajor ==
    /\ [](cout.n > 3 =>
            LET k == cout.n - 4
            IN  /\ cout.last = PixelLine(PixelColor(k \div image_width, k % image_width))
                /\ cout.last = ToString(k % image_width) \o " "
                                 \o ToString(k \div image_width) \o " 0"
                /\ k < image_width * image_height)
    /\ [][cout.n >= 3 /\ cout' # cout => cout'.n = cout.n + 1]_vars

\* C3 witness: the line of index k = 3*W + 7 (row 3, column 7) is the last written.
C3_Witness == cout.n = 4 + 3 * image_width + 7 /\ i = 3 /\ j = 8 /\ cout.last = "7 3 0"

\* C4: the pixel line of (i, j) is "R G B" with R = floor(255.999*j/(W-1)),
\* G = floor(255.999*i/(H-1)) and B = 0; the four corners of the 256x256
\* image are "0 0 0", "255 0 0", "0 255 0" and "255 255 0".
C4_PixelValue ==
    PixelWritten =>
        LET col == j - 1
            R   == (255999 * col) \div (1000 * (image_width - 1))
            G   == (255999 * i) \div (1000 * (image_height - 1))
        IN  /\ px = <<R, G, 0>>
            /\ cout.last = ToString(R) \o " " \o ToString(G) \o " " \o ToString(0)
            /\ (i = 0 /\ col = 0) => cout.last = "0 0 0"
            /\ (i = 0 /\ col = 255) => cout.last = "255 0 0"
            /\ (i = 255 /\ col = 0) => cout.last = "0 255 0"
            /\ (i = 255 /\ col = 255) => cout.last = "255 255 0"

\* C4 witness: the bottom-right corner has been written.
C4_Witness == PixelWritten /\ i = 255 /\ j = 256 /\ cout.last = "255 255 0"

\* C5: every channel value written is an integer in 0..255; the normalized
\* coordinate 1.0 (last column for red, last row for green) gives 255, never 256.
C5_ChannelRange ==
    /\ \A k \in 1..3 : px[k] \in 0..255
    /\ PixelWritten =>
          /\ cout.last = PixelLine(px)
          /\ j = image_width => px[1] = 255
          /\ i = image_height - 1 => px[2] = 255

\* C5 witness: a pixel whose red and green coordinates are both 1.0.
C5_Witness ==
    /\ PixelWritten /\ j = image_width /\ i = image_height - 1
    /\ DQuot(j - 1, image_width - 1) = [m |-> <<1, 0, 0, 0, 0>>, e |-> 0]
    /\ px = <<255, 255, 0>>

\* C6: in a row, red does not decrease from one column to the next; in a
\* column, green does not decrease from one row to the next; red is the
\* same as in the top row (it does not depend on the row) and green the
\* same as in the first column (it does not depend on the column).
C6_Monotone ==
    PixelWritten =>
        LET col == j - 1
        IN  /\ col > 0 => px[1] >= PixelColor(i, col - 1)[1]
            /\ i > 0 => px[2] >= PixelColor(i - 1, col)[2]
            /\ px[1] = PixelColor(0, col)[1]
            /\ px[2] = PixelColor(i, 0)[2]
            /\ px[3] = 0

\* C6 witness: a pixel inside the image with both neighbours to compare with.
C6_Witness == PixelWritten /\ i = 200 /\ j = 101 /\ px = <<100, 200, 0>>

\* C7: the progress text written at the start of row i reports the number of
\* rows not yet completed, H - i.
C7_RemainingCount ==
    pc = "inner" =>
        clog.last = "\rScanlines remaining: " \o ToString(image_height - i) \o " "

\* C8: the program terminates with exit status 0; the completion message is
\* written only after all W*H pixel lines of all H rows, and nothing is
\* written to std::clog after it (so it is written once, and last).
C8_Completion ==
    /\ <>(pc = "exited" /\ exit_code = 0 /\ clog.last = "\rDone.                 \n")
    /\ [](exit_code \in {-1, 0})
    /\ [](clog.last = "\rDone.                 \n" =>
            /\ i = image_height
            /\ cout.n = 3 + image_width * image_height
            /\ clog.n = image_height + 1)
    /\ [][clog.last = "\rDone.                 \n" => clog' = clog /\ cout' = cout]_vars

\* C8 witness: the program has exited after writing the completion message.
C8_Witness ==
    /\ pc = "exited" /\ exit_code = 0
    /\ clog.last = DoneText /\ clog.n = 257 /\ cout.n = 65539

\* C10: one progress text is written per row, H in all; the one of row i is
\* written when exactly the header and i complete rows are on std::cout;
\* std::clog carries only progress and completion text, std::cout never
\* does, and no step writes to both.
C10_ProgressPerRow ==
    /\ [](clog.n = CASE pc = "header" -> 0
                     [] pc = "outer"  -> i
                     [] pc = "inner"  -> i + 1
                     [] OTHER         -> image_height + 1)
    /\ [](/\ clog.last \in {"", ProgressText, DoneText}
          /\ cout.last \notin {ProgressText, DoneText}
          /\ clog.n > 0 /\ pc \notin {"return", "exited"} => clog.last = ProgressText)
    /\ [][clog' # clog /\ clog'.last = ProgressText =>
            /\ i < image_height
            /\ clog'.n = i + 1
            /\ cout.n = 3 + i * image_width]_vars
    /\ [][cout' = cout \/ clog' = clog]_vars

\* C10 witness: the progress text of row 5 has just been written.
C10_Witness ==
    /\ pc = "inner" /\ i = 5 /\ j = 0
    /\ clog.n = 6 /\ clog.last = ProgressText /\ cout.n = 3 + 5 * image_width

====
